---- MODULE Spec2Model ----
(***************************************************************************)
(* Model of Stats.py, the "University Grading System" script.              *)
(*                                                                         *)
(* The three grading helpers are pure functions and are modelled as        *)
(* operators.  The script body (one top-to-bottom run of lines 96-246) is  *)
(* modelled as a state machine whose program counter pc walks through the  *)
(* steps of the run.                                                       *)
(*                                                                         *)
(* Numbers.  Scores, thresholds and percentages are integers and the       *)
(* arithmetic on them is exact.  Fractions that the code produces are      *)
(* kept exact by scaling:                                                  *)
(*   - percentages are held in units of 1/PctScale percent, because the    *)
(*     script divides the remaining percentage by len(remaining_grades);   *)
(*   - the band boundaries mean + c*std of the formula policy have c a     *)
(*     multiple of 1/6, so c is held in sixths (BandUnit).                 *)
(* Binary floating-point rounding of the same expressions is not modelled. *)
(*                                                                         *)
(* An ordered dict is a sequence of <<key, value>> pairs in insertion      *)
(* order.  A pandas Series / list of grades is a sequence; the row with    *)
(* index label r (RangeIndex, as read_csv and read_excel produce) is       *)
(* element r + 1.  A missing grade (NaN) is the string "NaN".              *)
(***************************************************************************)
EXTENDS Integers, Sequences, FiniteSets, TLC

VARIABLES
    pc,            \* position in the script run / in the function harness
    columns,       \* column names of the DataFrame `data`
    scores,        \* data["Scores"]
    rows,          \* row order of `data` (sequence of index labels + 1)
    policy,        \* grading branch taken: "none", "Absolute", "Percentile", "Formula"
    thresholds,    \* ordered dict grade -> threshold (absolute grading)
    percentage_a,  \* number_input "Percentage of students receiving A grade"
    percentage_f,  \* number_input "Percentage of students receiving F grade"
    percentages,   \* ordered dict grade -> percentage, in 1/PctScale percent
    mean,          \* argument mean of calculate_relative_grades
    std,           \* argument std of calculate_relative_grades
    grades,        \* value of the script variable `grades` / the function result
    defined,       \* script variables bound so far in this run
    errors,        \* errors reported by st.error or raised
    summary,       \* the summary DataFrame: sequence of <<grade, count>>
    exported       \* TRUE once export_to_excel produced the file

vars == <<pc, columns, scores, rows, policy, thresholds, percentage_a,
          percentage_f, percentages, mean, std, grades, defined, errors,
          summary, exported>>

----------------------------------------------------------------------------
(* Bounds of the model *)

MaxN == 3          \* maximal number of rows of the uploaded table
MaxGrades == 3     \* maximal length of a quota mapping in the function harness

ScoreValues == {-5, 0, 50, 90, 95}
ThresholdValues == {0, 50, 90}
PctInputs == {0, 25, 50, 60, 100}
QuotaValues == {0, 25, 50, 60, 100}
RelScoreValues == {-7, 0, 40, 50, 70, 90, 91, 95}
MeanValues == {0, 70}
StdValues == {0, 3, 10}
TableColumns == {{"Name", "Scores"}, {"Name", "Score"}, {"Name"}}

SeqsUpTo(S, n) == UNION {[1..k -> S] : k \in 0..n}

----------------------------------------------------------------------------
(* Constants of the script *)

grade_order == <<"A", "A-", "B+", "B", "B-", "C+", "C", "C-", "D", "F">>

remaining_grades == <<"A-", "B+", "B", "B-", "C+", "C", "C-", "D">>

DefaultThresholds ==
    << <<"A", 90>>, <<"A-", 85>>, <<"B+", 80>>, <<"B", 75>>, <<"B-", 70>>,
       <<"C+", 65>>, <<"C", 60>>, <<"C-", 55>>, <<"D", 50>>, <<"F", 0>> >>

PctScale == Len(remaining_grades)

BandUnit == 6

Band(g, hl, l, hu, u) ==
    [grade |-> g, hasLower |-> hl, lower |-> l, hasUpper |-> hu, upper |-> u]

\* (lower, upper) of each grade as multiples of std/BandUnit added to mean
grade_boundaries ==
    << Band("A",  TRUE,    9, TRUE,  12),
       Band("A-", TRUE,    6, TRUE,   9),
       Band("B+", TRUE,    3, TRUE,   6),
       Band("B",  TRUE,   -3, TRUE,   3),
       Band("B-", TRUE,   -6, TRUE,  -3),
       Band("C+", TRUE,   -8, TRUE,  -6),
       Band("C",  TRUE,  -10, TRUE,  -8),
       Band("C-", TRUE,  -12, TRUE, -10),
       Band("D",  TRUE,  -12, FALSE,  0),
       Band("F",  FALSE,   0, TRUE, -12) >>

BandCoefs == {grade_boundaries[b].lower : b \in DOMAIN grade_boundaries}
                \cup {grade_boundaries[b].upper : b \in DOMAIN grade_boundaries}

----------------------------------------------------------------------------
(* Small helpers *)

Min(S) == CHOOSE x \in S : \A y \in S : x <= y

Max(S) == CHOOSE x \in S : \A y \in S : x >= y

Range(s) == {s[i] : i \in DOMAIN s}

RECURSIVE SumSeq(_)
SumSeq(s) == IF s = <<>> THEN 0 ELSE Head(s) + SumSeq(Tail(s))

RECURSIVE SumSq(_)
SumSq(s) == IF s = <<>> THEN 0 ELSE Head(s) * Head(s) + SumSq(Tail(s))

\* ceil(x / d) for d > 0, as np.ceil of the quotient
CeilDiv(x, d) == -((-x) \div d)

\* position of key g in an ordered dict or a grade list
KeyPos(d, g) == CHOOSE k \in DOMAIN d : d[k][1] = g

Rank(g) == IF g \in Range(grade_order)
           THEN CHOOSE k \in DOMAIN grade_order : grade_order[k] = g
           ELSE Len(grade_order) + 1

----------------------------------------------------------------------------
(* calculate_absolute_grades *)

\* variant: the comparison is strict (score > threshold)
ThresholdMetStrict(score, th) == {k \in DOMAIN th : score > th[k][2]}

\* positions of the dict entries whose threshold the score meets
ThresholdMet(score, th) == {k \in DOMAIN th : score >= th[k][2]}

RECURSIVE calculate_absolute_grades(_, _)
calculate_absolute_grades(sc, th) ==
    IF sc = <<>> THEN <<>>
    ELSE LET met == ThresholdMet(Head(sc), th)
             rest == calculate_absolute_grades(Tail(sc), th)
         IN  IF met = {} THEN rest                    \* nothing appended
             ELSE <<th[Min(met)][1]>> \o rest         \* first match, break

----------------------------------------------------------------------------
(* calculate_relative_grades *)

\* score >= mean + (c / BandUnit) * std
AtLeast(score, m, s, c) == BandUnit * score >= BandUnit * m + c * s

\* ge[c] says whether the score is >= the boundary with coefficient c
InBand(ge, b) ==
    /\ (~b.hasLower \/ ge[b.lower])
    /\ (~b.hasUpper \/ ~ge[b.upper])

BandGrade(ge) ==
    LET hit == {b \in DOMAIN grade_boundaries : InBand(ge, grade_boundaries[b])}
    IN  IF hit = {} THEN "F" ELSE grade_boundaries[Min(hit)].grade

calculate_relative_grades(sc, m, s) ==
    [i \in DOMAIN sc |-> BandGrade([c \in BandCoefs |-> AtLeast(sc[i], m, s, c)])]

----------------------------------------------------------------------------
(* standardize_scores followed by calculate_relative_grades, as the        *)
(* "Predefined Formula" branch calls them                                  *)

\* n * (x_i - mean(x))
Dev(sc, i) == Len(sc) * sc[i] - SumSeq(sc)

\* n * (n - 1) * var(x), var the sample variance (ddof = 1)
VarN(sc) == Len(sc) * SumSq(sc) - SumSeq(sc) * SumSeq(sc)

\* std(x) is NaN (fewer than two rows) or 0: every standardized score is NaN
StdDegenerate(sc) == Len(sc) < 2 \/ VarN(sc) = 0

\* z_i >= 0 + (c / BandUnit) * 1 with z_i = (x_i - mean(x)) / std(x), decided
\* exactly by comparing squares
StdAtLeast(sc, i, c) ==
    LET n == Len(sc)
        d == Dev(sc, i)
        lhs == BandUnit * BandUnit * d * d * (n - 1)
        rhs == c * c * n * VarN(sc)
    IN  IF c >= 0 THEN d >= 0 /\ lhs >= rhs
        ELSE d >= 0 \/ lhs <= rhs

FormulaGrades(sc) ==
    IF StdDegenerate(sc)
    THEN [i \in DOMAIN sc |-> "F"]       \* NaN compares False everywhere
    ELSE [i \in DOMAIN sc |-> BandGrade([c \in BandCoefs |-> StdAtLeast(sc, i, c)])]

----------------------------------------------------------------------------
(* calculate_relative_grades_percentile *)

\* insert label r into a label sequence kept in descending score order
RECURSIVE InsertDesc(_, _, _)
InsertDesc(sc, r, srt) ==
    IF srt = <<>> THEN <<r>>
    ELSE IF sc[r + 1] > sc[Head(srt) + 1] THEN <<r>> \o srt
    ELSE <<Head(srt)>> \o InsertDesc(sc, r, Tail(srt))

\* scores.sort_values(ascending=False): the index labels of the first k rows
\* in descending score order (the order among equal scores does not reach
\* the result, because reset_index discards the labels)
RECURSIVE SortPrefixDesc(_, _)
SortPrefixDesc(sc, k) ==
    IF k = 0 THEN <<>> ELSE InsertDesc(sc, k - 1, SortPrefixDesc(sc, k - 1))

sort_values_desc(sc) == SortPrefixDesc(sc, Len(sc))

\* .reset_index(drop=True): the labels are replaced by 0 .. n-1
reset_index_drop(idx) == [p \in DOMAIN idx |-> p - 1]

scores_sorted_index(sc) == reset_index_drop(sort_values_desc(sc))

\* variant: the percentage is not accumulated (cumulative_percentage = percentage)
CumPctOwn(pct, k) == IF k = 0 THEN 0 ELSE pct[k][2]

RECURSIVE CumPct(_, _)
CumPct(pct, k) == IF k = 0 THEN 0 ELSE CumPct(pct, k - 1) + pct[k][2]

\* variant: the quotient is truncated (int(...) without np.ceil)
EndIndexFloor(pct, k, n) == (CumPct(pct, k) * n) \div (100 * PctScale)

\* int(np.ceil(cumulative_percentage / 100 * n))
EndIndex(pct, k, n) == CeilDiv(CumPct(pct, k) * n, 100 * PctScale)

StartIndex(pct, k, n) == IF k = 1 THEN 0 ELSE EndIndex(pct, k - 1, n)

\* a slice bound as Python clips it to a sequence of length n
SliceBound(x, n) == IF x < 0 THEN (IF x + n < 0 THEN 0 ELSE x + n)
                    ELSE IF x > n THEN n ELSE x

\* labels selected by idx[start_index:end_index], idx = scores_sorted.index
SliceLabels(idx, pct, k) ==
    LET n == Len(idx)
        lo == SliceBound(StartIndex(pct, k, n), n)
        hi == SliceBound(EndIndex(pct, k, n), n)
    IN  {idx[p] : p \in {q \in DOMAIN idx : q > lo /\ q <= hi}}

\* grades[labels] = grade, for each dict entry in order; later writes win
calculate_relative_grades_percentile(sc, pct) ==
    LET idx == scores_sorted_index(sc)
        slice == [k \in DOMAIN pct |-> SliceLabels(idx, pct, k)]
    IN  [i \in DOMAIN sc |->
            LET ks == {k \in DOMAIN pct : (i - 1) \in slice[k]}
            IN  IF ks = {} THEN "NaN" ELSE pct[Max(ks)][1]]

----------------------------------------------------------------------------
(* Pieces of the script body *)

\* variant: the singular column name is accepted as well
HasScoreLikeColumn(cols) == cols \cap {"Score", "Scores"} # {}

\* "Scores" in data.columns
HasScoresColumn(cols) == "Scores" \in cols

\* variant: only the A percentage is compared with 100
QuotaOverflowOnlyA(a, f) == 100 - a < 0

\* remaining_percentage < 0
QuotaOverflow(a, f) == 100 - (a + f) < 0

\* percentages = {"A": a, "F": f}; percentages.update({grade: proportional ...})
BuildPercentages(a, f) ==
    << <<"A", a * PctScale>>, <<"F", f * PctScale>> >>
    \o [k \in DOMAIN remaining_grades |-> <<remaining_grades[k], 100 - (a + f)>>]

\* thresholds typed into the ten number_inputs
CustomThresholds ==
    {[k \in DOMAIN grade_order |-> <<grade_order[k], t[k]>>] :
        t \in {u \in [DOMAIN grade_order -> ThresholdValues] :
                  \A k \in 1..(Len(grade_order) - 1) : u[k] >= u[k + 1]}}
    \cup {[k \in DOMAIN grade_order |->
             <<grade_order[k], DefaultThresholds[Len(grade_order) + 1 - k][2]>>]}

ThresholdChoices == {DefaultThresholds} \cup CustomThresholds

CountOf(gr, g) == Cardinality({i \in DOMAIN gr : gr[i] = g})

\* data["Grades"].value_counts().reset_index(): grades that occur, most
\* frequent first, NaN dropped; the order among equal counts is not fixed
ValueCounts(gr) ==
    LET present == Range(gr) \ {"NaN"}
        k == Cardinality(present)
    IN  {[p \in 1..k |-> <<o[p], CountOf(gr, o[p])>>] :
            o \in {q \in [1..k -> present] :
                      /\ \A i, j \in 1..k : i # j => q[i] # q[j]
                      /\ \A i, j \in 1..k :
                            i < j => CountOf(gr, q[i]) >= CountOf(gr, q[j])}}

\* data.sort_values("Grades") on the ordered categorical; NaN last
SortedRows(gr) ==
    {r \in [DOMAIN gr -> DOMAIN gr] :
        /\ \A i, j \in DOMAIN gr : i # j => r[i] # r[j]
        /\ \A i, j \in DOMAIN gr : i < j => Rank(gr[r[i]]) <= Rank(gr[r[j]])}

----------------------------------------------------------------------------
(* The script run *)

Init ==
    /\ pc = "start"
    /\ columns = {}
    /\ scores = <<>>
    /\ rows = <<>>
    /\ policy = "none"
    /\ thresholds = <<>>
    /\ percentage_a = 0
    /\ percentage_f = 0
    /\ percentages = <<>>
    /\ mean = 0
    /\ std = 0
    /\ grades = <<>>
    /\ defined = {}
    /\ errors = {}
    /\ summary = <<>>
    /\ exported = FALSE

\* file is None: nothing below line 102 runs
NoFile ==
    /\ pc = "start"
    /\ pc' = "no_file"
    /\ UNCHANGED <<columns, scores, rows, policy, thresholds, percentage_a,
                   percentage_f, percentages, mean, std, grades, defined,
                   errors, summary, exported>>

\* the table has no "Scores" column: st.error, nothing else runs
UploadMissingColumn ==
    /\ pc = "start"
    /\ \E cols \in TableColumns :
          /\ ~HasScoresColumn(cols)
          /\ columns' = cols
    /\ errors' = errors \cup {"MissingColumn"}
    /\ pc' = "done"
    /\ UNCHANGED <<scores, rows, policy, thresholds, percentage_a,
                   percentage_f, percentages, mean, std, grades, defined,
                   summary, exported>>

\* scores = data["Scores"]
Upload ==
    /\ pc = "start"
    /\ \E cols \in TableColumns, sc \in SeqsUpTo(ScoreValues, MaxN) :
          /\ HasScoresColumn(cols)
          /\ columns' = cols
          /\ scores' = sc
          /\ rows' = [i \in DOMAIN sc |-> i]
    /\ defined' = defined \cup {"scores"}
    /\ pc' = "scheme"
    /\ UNCHANGED <<policy, thresholds, percentage_a, percentage_f,
                   percentages, mean, std, grades, errors, summary, exported>>

\* "Absolute Grading" branch, default or custom thresholds
GradeAbsolute ==
    /\ pc = "scheme"
    /\ \E th \in ThresholdChoices :
          /\ thresholds' = th
          /\ grades' = calculate_absolute_grades(scores, th)
    /\ policy' = "Absolute"
    /\ defined' = defined \cup {"grades", "standardized_scores"}
    /\ pc' = "attach"
    /\ UNCHANGED <<columns, scores, rows, percentage_a, percentage_f,
                   percentages, mean, std, errors, summary, exported>>

\* "User-Defined Percentages" branch, remaining_percentage >= 0
GradePercentile ==
    /\ pc = "scheme"
    /\ \E a \in PctInputs, f \in PctInputs :
          /\ ~QuotaOverflow(a, f)
          /\ percentage_a' = a
          /\ percentage_f' = f
          /\ percentages' = BuildPercentages(a, f)
          /\ grades' = calculate_relative_grades_percentile(scores,
                                                            BuildPercentages(a, f))
    /\ policy' = "Percentile"
    /\ defined' = defined \cup {"grades", "standardized_scores"}
    /\ pc' = "attach"
    /\ UNCHANGED <<columns, scores, rows, thresholds, mean, std, errors,
                   summary, exported>>

\* "User-Defined Percentages" branch, remaining_percentage < 0: st.error;
\* neither grades nor standardized_scores is bound
PercentileOverflow ==
    /\ pc = "scheme"
    /\ \E a \in PctInputs, f \in PctInputs :
          /\ QuotaOverflow(a, f)
          /\ percentage_a' = a
          /\ percentage_f' = f
    /\ policy' = "Percentile"
    /\ errors' = errors \cup {"QuotaOverflow"}
    /\ pc' = "attach"
    /\ UNCHANGED <<columns, scores, rows, thresholds, percentages, mean, std,
                   grades, defined, summary, exported>>

\* "Predefined Formula" branch
GradeFormula ==
    /\ pc = "scheme"
    /\ policy' = "Formula"
    /\ grades' = FormulaGrades(scores)
    /\ defined' = defined \cup {"grades", "standardized_scores"}
    /\ pc' = "attach"
    /\ UNCHANGED <<columns, scores, rows, thresholds, percentage_a,
                   percentage_f, percentages, mean, std, errors, summary,
                   exported>>

\* data["Standardized Scores"] = standardized_scores; data["Grades"] = grades
Attach ==
    /\ pc = "attach"
    /\ IF "standardized_scores" \notin defined
       THEN /\ errors' = errors \cup {"NameError"}
            /\ pc' = "crashed"
            /\ UNCHANGED columns
       ELSE IF Len(grades) # Len(scores)
       THEN /\ columns' = columns \cup {"Standardized Scores"}
            /\ errors' = errors \cup {"ValueError"}
            /\ pc' = "crashed"
       ELSE /\ columns' = columns \cup {"Standardized Scores", "Grades"}
            /\ pc' = "summary"
            /\ UNCHANGED errors
    /\ UNCHANGED <<scores, rows, policy, thresholds, percentage_a,
                   percentage_f, percentages, mean, std, grades, defined,
                   summary, exported>>

\* summary = data["Grades"].value_counts().reset_index()
BuildSummary ==
    /\ pc = "summary"
    /\ summary' \in ValueCounts(grades)
    /\ defined' = defined \cup {"summary"}
    /\ pc' = "sort"
    /\ UNCHANGED <<columns, scores, rows, policy, thresholds, percentage_a,
                   percentage_f, percentages, mean, std, grades, errors,
                   exported>>

\* pd.Categorical(..., categories=grade_order, ordered=True); sort_values
SortByGrade ==
    /\ pc = "sort"
    /\ \E r \in SortedRows(grades) : rows' = r
    /\ pc' = "export"
    /\ UNCHANGED <<columns, scores, policy, thresholds, percentage_a,
                   percentage_f, percentages, mean, std, grades, defined,
                   errors, summary, exported>>

\* export_to_excel(data) and the download button
Export ==
    /\ pc = "export"
    /\ exported' = TRUE
    /\ pc' = "done"
    /\ UNCHANGED <<columns, scores, rows, policy, thresholds, percentage_a,
                   percentage_f, percentages, mean, std, grades, defined,
                   errors, summary>>

Next ==
    \/ NoFile
    \/ UploadMissingColumn
    \/ Upload
    \/ GradeAbsolute
    \/ GradePercentile
    \/ PercentileOverflow
    \/ GradeFormula
    \/ Attach
    \/ BuildSummary
    \/ SortByGrade
    \/ Export

Spec == Init /\ [][Next]_vars

----------------------------------------------------------------------------
(* calculate_relative_grades applied to bounded inputs *)

Idle ==
    /\ columns = {}
    /\ rows = <<>>
    /\ policy = "none"
    /\ thresholds = <<>>
    /\ percentage_a = 0
    /\ percentage_f = 0
    /\ grades = <<>>
    /\ defined = {}
    /\ errors = {}
    /\ summary = <<>>
    /\ exported = FALSE

InitRel ==
    /\ pc = "call_relative"
    /\ scores \in SeqsUpTo(RelScoreValues, MaxN)
    /\ mean \in MeanValues
    /\ std \in StdValues
    /\ percentages = <<>>
    /\ Idle

CallRelative ==
    /\ pc = "call_relative"
    /\ grades' = calculate_relative_grades(scores, mean, std)
    /\ pc' = "returned_relative"
    /\ UNCHANGED <<columns, scores, rows, policy, thresholds, percentage_a,
                   percentage_f, percentages, mean, std, defined, errors,
                   summary, exported>>

NextRel == CallRelative

SpecRel == InitRel /\ [][NextRel]_vars

----------------------------------------------------------------------------
(* calculate_relative_grades_percentile applied to bounded inputs *)

\* quota mappings over the first m grades, in 1/PctScale percent
PctMappings ==
    UNION {{[k \in 1..m |-> <<grade_order[k], q[k] * PctScale>>] :
               q \in [1..m -> QuotaValues]} : m \in 1..MaxGrades}

ExampleQuotas ==
    << <<"A", 20 * PctScale>>, <<"B", 30 * PctScale>>, <<"C", 30 * PctScale>>,
       <<"D", 15 * PctScale>>, <<"F", 5 * PctScale>> >>

ExampleScores == [i \in 1..100 |-> i]

InitPct ==
    /\ pc = "call_percentile"
    /\ \/ /\ scores \in SeqsUpTo(ScoreValues, MaxN)
          /\ percentages \in PctMappings
       \/ /\ scores = ExampleScores
          /\ percentages = ExampleQuotas
    /\ mean = 0
    /\ std = 0
    /\ Idle

CallPercentile ==
    /\ pc = "call_percentile"
    /\ grades' = calculate_relative_grades_percentile(scores, percentages)
    /\ pc' = "returned_percentile"
    /\ UNCHANGED <<columns, scores, rows, policy, thresholds, percentage_a,
                   percentage_f, percentages, mean, std, defined, errors,
                   summary, exported>>

NextPct == CallPercentile

SpecPct == InitPct /\ [][NextPct]_vars

----------------------------------------------------------------------------
(* Properties *)

Keys(d) == [k \in DOMAIN d |-> d[k][1]]

Values(d) == [k \in DOMAIN d |-> d[k][2]]

Descending(th) ==
    \A k, l \in DOMAIN th : k < l => th[k][2] >= th[l][2]

\* E = ceil(num / den), stated without division
IsCeil(E, num, den) == (E - 1) * den < num /\ num <= E * den

CeilOf(num, den, hi) == CHOOSE E \in 0..hi : IsCeil(E, num, den)

Clip(x, n) == IF x > n THEN n ELSE x

\* cumulative quota through entry k, in 1/PctScale percent
QuotaThrough(d, k) == SumSeq(SubSeq(Values(d), 1, k))

\* rows up to the cut-off ceil(cumulative quota% * n) of entry k
CutOff(d, k, n) ==
    Clip(CeilOf(QuotaThrough(d, k) * n, 100 * PctScale, Len(d) * n), n)

OwnCeil(d, k, n) == CeilOf(d[k][2] * n, 100 * PctScale, n)

\* C1: calculate_relative_grades with std > 0 returns one grade per score,
\* grades every score strictly above mean + 2*std "A" and every score
\* strictly below mean - 2*std "F".
C1_TailsGradedAandF ==
    (pc = "returned_relative" /\ std > 0) =>
        /\ Len(grades) = Len(scores)
        /\ \A i \in DOMAIN scores :
              /\ grades[i] \in Range(grade_order)
              /\ (scores[i] > mean + 2 * std => grades[i] = "A")
              /\ (scores[i] < mean - 2 * std => grades[i] = "F")

\* C2: calculate_relative_grades_percentile never gives a row with a strictly
\* higher score a grade that comes later in the mapping than the grade of a
\* row with a lower score.
C2_HigherScoreNoLaterGrade ==
    pc = "returned_percentile" =>
        \A i, j \in DOMAIN scores :
            (/\ scores[i] > scores[j]
             /\ grades[i] # "NaN"
             /\ grades[j] # "NaN")
            => KeyPos(percentages, grades[i]) <= KeyPos(percentages, grades[j])

\* C3: after absolute grading either there is one grade per score, the i-th
\* grade being the first grade whose threshold the i-th score meets, or the
\* run is in an error state; a shorter or shifted grade list is never
\* returned.
C3_AbsoluteNeverDropsRow ==
    policy = "Absolute" =>
        \/ /\ Len(grades) = Len(scores)
           /\ \A i \in DOMAIN scores :
                 /\ \E k \in DOMAIN thresholds : scores[i] >= thresholds[k][2]
                 /\ \A k \in DOMAIN thresholds :
                       (/\ scores[i] >= thresholds[k][2]
                        /\ \A l \in 1..(k - 1) : scores[i] < thresholds[l][2])
                       => grades[i] = thresholds[k][1]
        \/ errors # {}

\* C4: absolute grading with thresholds in descending order gives each score
\* that meets some threshold the first grade in mapping order whose threshold
\* it meets, whose threshold is the greatest threshold <= score; a score equal
\* to a threshold earns a grade with that threshold.
C4_FirstMetIsGreatestThreshold ==
    (/\ policy = "Absolute"
     /\ Descending(thresholds)
     /\ \A i \in DOMAIN scores :
           \E k \in DOMAIN thresholds : thresholds[k][2] <= scores[i])
    => /\ Len(grades) = Len(scores)
       /\ \A i \in DOMAIN scores :
             LET g == KeyPos(thresholds, grades[i])
             IN  /\ thresholds[g][2] <= scores[i]
                 /\ \A k \in DOMAIN thresholds :
                       /\ (k < g => thresholds[k][2] > scores[i])
                       /\ (thresholds[k][2] <= scores[i]
                              => thresholds[k][2] <= thresholds[g][2])
                       /\ (thresholds[k][2] = scores[i]
                              => thresholds[g][2] = scores[i])

C4_Witness ==
    /\ pc = "attach"
    /\ policy = "Absolute"
    /\ thresholds = DefaultThresholds
    /\ scores = <<90, 50, 95>>
    /\ grades = <<"A", "D", "A">>

\* C5: with quotas that sum to 100, calculate_relative_grades_percentile
\* grades every row, the blocks of the grades are pairwise disjoint, the group
\* sizes sum to N, and quotas {A:20,B:30,C:30,D:15,F:5} on 100 rows give
\* groups of 20, 30, 30, 15 and 5 rows.
C5_EveryRowGradedOnce ==
    (/\ pc = "returned_percentile"
     /\ SumSeq(Values(percentages)) = 100 * PctScale)
    => /\ Len(grades) = Len(scores)
       /\ \A i \in DOMAIN grades : grades[i] \in Range(Keys(percentages))
       /\ \A k, l \in DOMAIN percentages :
             k # l => SliceLabels(scores_sorted_index(scores), percentages, k)
                        \cap SliceLabels(scores_sorted_index(scores), percentages, l)
                        = {}
       /\ SumSeq([k \in DOMAIN percentages |-> CountOf(grades, percentages[k][1])])
             = Len(scores)
       /\ (percentages = ExampleQuotas /\ Len(scores) = 100)
             => [k \in DOMAIN percentages |-> CountOf(grades, percentages[k][1])]
                   = <<20, 30, 30, 15, 5>>

C5_Witness ==
    /\ pc = "returned_percentile"
    /\ percentages = ExampleQuotas
    /\ Len(scores) = 100
    /\ CountOf(grades, "A") = 20
    /\ CountOf(grades, "F") = 5

C7_OverflowStopsRun ==
    (policy = "Percentile" /\ percentage_a + percentage_f > 100)
    => /\ "QuotaOverflow" \in errors
       /\ "grades" \notin defined
       /\ grades = <<>>
       /\ percentages = <<>>
       /\ "Grades" \notin columns
       /\ "summary" \notin defined
       /\ summary = <<>>
       /\ ~exported
       /\ pc \in {"attach", "crashed"}

C7_Witness ==
    /\ pc = "crashed"
    /\ policy = "Percentile"
    /\ percentage_a = 60
    /\ percentage_f = 50
    /\ Len(scores) = 2
    /\ "QuotaOverflow" \in errors

\* C8: once built, the summary lists all ten grades of grade_order in that
\* order with their counts, zero counts included.
C8_SummaryListsAllGrades ==
    "summary" \in defined =>
        summary = [k \in DOMAIN grade_order |->
                      <<grade_order[k], CountOf(grades, grade_order[k])>>]

\* C9: after the upload of a table without a "Scores" column the run has
\* reported the error and ended: no policy applied, no grades bound or
\* attached, no summary, no export.
C9_MissingColumnStopsRun ==
    (pc \notin {"start", "no_file"} /\ "Scores" \notin columns)
    => /\ "MissingColumn" \in errors
       /\ pc = "done"
       /\ policy = "none"
       /\ grades = <<>>
       /\ defined = {}
       /\ columns \cap {"Standardized Scores", "Grades"} = {}
       /\ summary = <<>>
       /\ ~exported

C9_Witness ==
    /\ pc = "done"
    /\ columns = {"Name", "Score"}
    /\ "MissingColumn" \in errors
    /\ ~exported

\* C10: the quota mapping of the user-defined-percentages flow lists the
\* grades in the order of grade_order, and no row graded F precedes, in the
\* order in which the cursor consumes the rows, a row graded A-, ..., D.
C10_MappingBestToWorst ==
    (policy = "Percentile" /\ "grades" \in defined)
    => /\ Keys(percentages) = grade_order
       /\ \A i, j \in DOMAIN grades :
             (grades[i] = "F" /\ grades[j] \in Range(remaining_grades))
             => j < i

====
